---- MODULE Spec2Model ----
(***************************************************************************)
(* LLVMUserExpression (lldb/source/Expression/LLVMUserExpression.cpp):     *)
(* the execution engine of one user expression object.                     *)
(*                                                                         *)
(* The model follows one expression object (`this`) bound to one process.  *)
(* Execute is a sequential procedure; every call has a frame on `stack`    *)
(* holding its position (pc), its parameters and its locals.  The only     *)
(* point where a call blocks is Process::RunThreadPlan; while the top      *)
(* frame is blocked there, the debugger may re-enter the engine (a nested  *)
(* evaluation), which pushes a new frame.  Every frame records the calls   *)
(* it made to its collaborators (log) and what it wrote to error_stream    *)
(* (err), in program order.                                                *)
(*                                                                         *)
(* Addresses are lldb::addr_t.  The 64-bit address space is narrowed to    *)
(* 30 bits, because the model checker's integers are 32-bit; address       *)
(* arithmetic wraps modulo AddrSpace as it wraps modulo 2^64 in the code.  *)
(***************************************************************************)
EXTENDS Integers, Sequences, FiniteSets, TLC

VARIABLES
    parsed,                   \* the compiler collaborator has filled the object in
    m_can_interpret,          \* LLVMUserExpression::m_can_interpret
    m_jit_start_addr,         \* Expression::m_jit_start_addr
    m_materialized_address,   \* LLVMUserExpression::m_materialized_address
    m_stack_frame_bottom,     \* LLVMUserExpression::m_stack_frame_bottom
    m_stack_frame_top,        \* LLVMUserExpression::m_stack_frame_top
    m_dematerializer_sp,      \* LLVMUserExpression::m_dematerializer_sp
    running_user_expression,  \* the process's running-user-expression state
    nAllocs,                  \* successful IRExecutionUnit::Malloc calls so far
    stack,                    \* frames of the Execute calls in progress, outermost first
    last,                     \* what the call that has just returned handed to its caller
    no_thread_address,        \* m_materialized_address when a call returned "no thread selected"
    m_target,                 \* LLVMUserExpression::m_target is not NULL
    m_jit_module_wp,          \* LLVMUserExpression::m_jit_module_wp refers to the JIT module
    jit_module_owners,        \* who holds a shared reference to the JIT module
    destroyed                 \* the destructor has run

vars == << parsed, m_can_interpret, m_jit_start_addr, m_materialized_address,
           m_stack_frame_bottom, m_stack_frame_top, m_dematerializer_sp,
           running_user_expression, nAllocs, stack, last, no_thread_address,
           m_target, m_jit_module_wp, jit_module_owners, destroyed >>

\* The fields the destructor reads, and the JIT module they refer to.
image == << m_target, m_jit_module_wp, jit_module_owners, destroyed >>

object == << parsed, m_can_interpret, m_jit_start_addr, m_materialized_address,
             m_stack_frame_bottom, m_stack_frame_top, m_dematerializer_sp >>

-----------------------------------------------------------------------------
(* Bounds of the model.                                                    *)

\* Evaluations in progress at once: one outermost call plus nested ones.
MaxDepth == 2

\* Dematerialize calls counted on one handle (the count saturates here).
MaxUses == 2

\* Successful allocations the memory map grants before it reports exhaustion.
MaxAllocs == 3

-----------------------------------------------------------------------------
(* Addresses.                                                              *)

\* The number of addresses: 2^64 in the code, 2^30 here.
AddrSpace == 2 ^ 30

\* LLDB_INVALID_ADDRESS is UINT64_MAX: all bits set.
LLDB_INVALID_ADDRESS == AddrSpace - 1

AddrAdd(a, b) == (a + b) % AddrSpace

AddrSub(a, b) == (a - b + AddrSpace) % AddrSpace

\* const size_t stack_frame_size = 512 * 1024;
stack_frame_size == 512 * 1024

\* HostInfo::GetPageSize()
PageSize == 4096

\* The entry address the JIT produced, when it produced one.
JitEntry == 2 ^ 16

\* Where the memory map places its n-th successful allocation.
AllocBase == 2 ^ 20

AllocAddress(n) == AllocBase + n * (2 * stack_frame_size)

\* The stack pointers a call plan may report for the called function.
StackPointers == { 2 ^ 24, PageSize \div 2 }

-----------------------------------------------------------------------------
(* Outcomes: lldb::ExpressionResults.                                      *)

Completed == "eExpressionCompleted"
SetupError == "eExpressionSetupError"
ParseError == "eExpressionParseError"
Discarded == "eExpressionDiscarded"
Interrupted == "eExpressionInterrupted"
HitBreakpoint == "eExpressionHitBreakpoint"
TimedOut == "eExpressionTimedOut"
ResultUnavailable == "eExpressionResultUnavailable"
StoppedForDebug == "eExpressionStoppedForDebug"

ExpressionResults ==
    { Completed, SetupError, ParseError, Discarded, Interrupted,
      HitBreakpoint, TimedOut, ResultUnavailable, StoppedForDebug }

-----------------------------------------------------------------------------
(* Dematerializer handles.  A handle is the object a successful            *)
(* Materialize returns; `uses` counts the Dematerialize calls made on it.  *)

NoHandle == [live |-> FALSE, uses |-> 0]

NewHandle == [live |-> TRUE, uses |-> 0]

Used(h) == [h EXCEPT !.uses = IF h.uses < MaxUses THEN h.uses + 1 ELSE MaxUses]

-----------------------------------------------------------------------------
(* Events a call records: the collaborator called, whether it succeeded,   *)
(* and its arguments of interest.                                          *)

Ev(op, ok, arg, addr, bottom, top) ==
    [op |-> op, ok |-> ok, arg |-> arg, addr |-> addr, bottom |-> bottom, top |-> top]

\* The options of a call that has not read them.
Unread == [unwind |-> FALSE, ignore |-> FALSE, read |-> FALSE]

\* An event that carries no address.
Ev0(op, ok, arg) == Ev(op, ok, arg, 0, 0, 0)

Ops(log) == [i \in 1..Len(log) |-> log[i].op]

Count(log, op) == Cardinality({i \in 1..Len(log) : log[i].op = op})

CountOk(log, op) == Cardinality({i \in 1..Len(log) : log[i].op = op /\ log[i].ok})

Has(seq, x) == \E i \in 1..Len(seq) : seq[i] = x

\* The fields of the object a preparation may change.
Snap == [ materialized_address |-> m_materialized_address,
          stack_frame_bottom   |-> m_stack_frame_bottom,
          stack_frame_top      |-> m_stack_frame_top,
          dematerializer_sp    |-> m_dematerializer_sp ]

NoCall == [ kind |-> "none", outcome |-> "none", log |-> <<>>, err |-> <<>>,
            result |-> "unmodified", depth |-> 0, options |-> Unread,
            exe_ctx |-> [stale |-> "unread", has_thread |-> "unread"],
            struct_address |-> LLDB_INVALID_ADDRESS,
            pre |-> [ materialized_address |-> LLDB_INVALID_ADDRESS,
                      stack_frame_bottom   |-> LLDB_INVALID_ADDRESS,
                      stack_frame_top      |-> LLDB_INVALID_ADDRESS,
                      dematerializer_sp    |-> NoHandle ],
            post |-> [ materialized_address |-> LLDB_INVALID_ADDRESS,
                       stack_frame_bottom   |-> LLDB_INVALID_ADDRESS,
                       stack_frame_top      |-> LLDB_INVALID_ADDRESS,
                       dematerializer_sp    |-> NoHandle ] ]

-----------------------------------------------------------------------------
(* Construction.                                                           *)

Init ==
    /\ parsed = FALSE
    /\ m_can_interpret = FALSE
    /\ m_jit_start_addr = LLDB_INVALID_ADDRESS
    /\ m_materialized_address = LLDB_INVALID_ADDRESS
    /\ m_stack_frame_bottom = LLDB_INVALID_ADDRESS
    /\ m_stack_frame_top = LLDB_INVALID_ADDRESS
    /\ m_dematerializer_sp = NoHandle
    /\ running_user_expression = FALSE
    /\ nAllocs = 0
    /\ stack = <<>>
    /\ last = NoCall
    /\ no_thread_address = LLDB_INVALID_ADDRESS
    /\ m_target = FALSE
    /\ m_jit_module_wp = FALSE
    /\ jit_module_owners = {}
    /\ destroyed = FALSE

\* The compiler/feasibility collaborator fills the object in, once: the
\* canInterpret flag and the optional machine-code entry address.  It binds
\* the object to its target; when machine code was produced it may wrap it in
\* a JIT module, keep a weak reference to the module in the object and
\* register the module with the target's image registry, which then holds a
\* shared reference to it; something else (a symbol context, say) may hold
\* another.
Parse ==
    /\ ~parsed
    /\ ~destroyed
    /\ stack = <<>>
    /\ parsed' = TRUE
    /\ \E interp \in BOOLEAN, jit \in {LLDB_INVALID_ADDRESS, JitEntry} :
          /\ interp \/ jit # LLDB_INVALID_ADDRESS
          /\ m_can_interpret' = interp
          /\ m_jit_start_addr' = jit
          /\ \E registered \in BOOLEAN, shared \in BOOLEAN :
                /\ registered => jit # LLDB_INVALID_ADDRESS
                /\ shared => registered
                /\ m_jit_module_wp' = registered
                /\ jit_module_owners' =
                       (IF registered THEN {"target"} ELSE {})
                       \cup (IF shared THEN {"other"} ELSE {})
    /\ m_target' = TRUE
    /\ UNCHANGED destroyed
    /\ last' = NoCall
    /\ UNCHANGED << m_materialized_address, m_stack_frame_bottom, m_stack_frame_top,
                    m_dematerializer_sp, running_user_expression, nAllocs, stack,
                    no_thread_address >>

\* The target's image registry drops the JIT module for a reason of its own
\* (its modules are unloaded); the module lives on only if something else
\* holds a reference to it.
Target_RemoveImage ==
    /\ "target" \in jit_module_owners
    /\ jit_module_owners' = jit_module_owners \ {"target"}
    /\ UNCHANGED << object, running_user_expression, nAllocs, stack, last,
                    no_thread_address, m_target, m_jit_module_wp, destroyed >>

\* m_jit_module_wp.lock(): empty when the weak reference was never set or
\* the module has no owner left.
Lock(jit_module_wp, owners) == jit_module_wp /\ owners # {}

\* What ~LLVMUserExpression does, as a set of one record: the calls it makes
\* and the owners of the JIT module afterwards.  GetImages().Remove(module)
\* reports whether the registry held the module.
Teardown(target, jit_module_wp, owners) ==
    IF ~target
    THEN { [ log |-> <<>>, owners |-> owners ] }
    ELSE IF ~Lock(jit_module_wp, owners)
         THEN { [ log |-> << Ev0("lock", FALSE, "") >>, owners |-> owners ] }
         ELSE { [ log |-> << Ev0("lock", TRUE, ""),
                             Ev0("Remove", "target" \in owners, "") >>,
                  owners |-> owners \ {"target"} ] }

\* Faulty variant: the image is removed only if the expression was prepared.
Destructor_SkipsUnpreparedExpression ==
    /\ ~destroyed
    /\ stack = <<>>
    /\ destroyed' = TRUE
    /\ UNCHANGED << object, running_user_expression, nAllocs, stack, no_thread_address,
                    m_target, m_jit_module_wp >>
    /\ \E t \in Teardown(m_target /\ m_materialized_address # LLDB_INVALID_ADDRESS,
                          m_jit_module_wp, jit_module_owners) :
          /\ jit_module_owners' = t.owners
          /\ last' = [ NoCall EXCEPT !.kind = "~LLVMUserExpression", !.log = t.log,
                                     !.pre = Snap, !.post = Snap' ]

\* ~LLVMUserExpression.  The object is destroyed when its last owner lets go
\* of it; a call in progress owns it, so no call is in progress.
Destructor ==
    /\ ~destroyed
    /\ stack = <<>>
    /\ destroyed' = TRUE
    /\ UNCHANGED << object, running_user_expression, nAllocs, stack, no_thread_address,
                    m_target, m_jit_module_wp >>
    /\ \E t \in Teardown(m_target, m_jit_module_wp, jit_module_owners) :
          /\ jit_module_owners' = t.owners
          /\ last' = [ NoCall EXCEPT !.kind = "~LLVMUserExpression", !.log = t.log,
                                     !.pre = Snap, !.post = Snap' ]

-----------------------------------------------------------------------------
(* Frames.                                                                 *)

Top == stack[Len(stack)]

AtPc(p) == stack # <<>> /\ Top.pc = p

\* The top frame becomes f.
Continue(f) ==
    /\ stack' = [stack EXCEPT ![Len(stack)] = f]
    /\ last' = NoCall

\* The call whose frame is f returns outcome to its caller.
Return(f, outcome) ==
    /\ stack' = SubSeq(stack, 1, Len(stack) - 1)
    /\ last' = [ kind |-> "Execute", outcome |-> outcome, log |-> f.log, err |-> f.err,
                 result |-> f.result, depth |-> Len(stack), options |-> f.options,
                 exe_ctx |-> f.exe_ctx, struct_address |-> f.struct_address,
                 pre |-> f.pre, post |-> Snap' ]

Logged(f, e) == [f EXCEPT !.log = Append(@, e)]

Printed(f, msgs) == [f EXCEPT !.err = @ \o msgs]

Goto(f, p) == [f EXCEPT !.pc = p]

-----------------------------------------------------------------------------
(* Collaborators: what a call into them may answer.                        *)

\* UserExpression::LockAndCheckContext: the context still names the target,
\* process and frame the expression was bound to.
LockAndCheckContext(exe_ctx) == exe_ctx.stale = "no"

\* IRExecutionUnit::Malloc: an address, or LLDB_INVALID_ADDRESS and an error.
MallocResults ==
    { [ok |-> FALSE, addr |-> LLDB_INVALID_ADDRESS] }
    \cup (IF nAllocs < MaxAllocs
          THEN { [ok |-> TRUE, addr |-> AllocAddress(nAllocs)] }
          ELSE {})

\* Materializer::Materialize: a new handle, or no handle and an error.
MaterializeResults ==
    { [ok |-> TRUE, handle |-> NewHandle], [ok |-> FALSE, handle |-> NoHandle] }

\* Process::SetRunningUserExpression(on), applied to the process's state.
SetRunningUserExpression(cur, on) == on

-----------------------------------------------------------------------------
(* Execute: entry.                                                         *)

\* A caller invokes Execute(error_stream, exe_ctx, options, ...), either with no
\* evaluation in progress or from the debugger while the innermost evaluation
\* is blocked in RunThreadPlan.  What exe_ctx and options hold is drawn where
\* the call first reads it (each is read once) and recorded in the frame.
Execute_Call ==
    /\ ~destroyed
    /\ Len(stack) < MaxDepth
    /\ UNCHANGED image
    /\ IF stack = <<>> THEN TRUE ELSE Top.pc = "RunThreadPlan"
    /\ stack' = Append(stack,
                     [ pc |-> "Execute",
                       options |-> Unread,
                       exe_ctx |-> [stale |-> "unread", has_thread |-> "unread"],
                       struct_address |-> LLDB_INVALID_ADDRESS,
                       function_stack_bottom |-> LLDB_INVALID_ADDRESS,
                       function_stack_top |-> LLDB_INVALID_ADDRESS,
                       execution_result |-> "none",
                       log |-> <<>>, err |-> <<>>, result |-> "unmodified",
                       pre |-> Snap ])
    /\ last' = NoCall
    /\ UNCHANGED << object, running_user_expression, nAllocs, no_thread_address >>

\* if (m_jit_start_addr != LLDB_INVALID_ADDRESS || m_can_interpret) ... else
HasSomethingToRun == m_jit_start_addr # LLDB_INVALID_ADDRESS \/ m_can_interpret

\* Faulty variant: an expression that is already prepared is not prepared again.
Execute_Entry_SkipsPreparationWhenPrepared ==
    /\ AtPc("Execute")
    /\ UNCHANGED image
    /\ UNCHANGED << object, running_user_expression, nAllocs, no_thread_address >>
    /\ IF HasSomethingToRun
       THEN Continue(Goto(Top, IF m_materialized_address # LLDB_INVALID_ADDRESS
                               THEN "Dispatch"
                               ELSE "LockAndCheckContext"))
       ELSE Return(Printed(Top, <<"Expression can't be run, because there is no JIT compiled function">>),
                   SetupError)

Execute_Entry ==
    /\ AtPc("Execute")
    /\ UNCHANGED image
    /\ UNCHANGED << object, running_user_expression, nAllocs, no_thread_address >>
    /\ IF HasSomethingToRun
       THEN Continue(Goto(Top, "LockAndCheckContext"))
       ELSE Return(Printed(Top, <<"Expression can't be run, because there is no JIT compiled function">>),
                   SetupError)

-----------------------------------------------------------------------------
(* PrepareToExecuteJITExpression, as Execute calls it; when it returns     *)
(* false, Execute prints and returns eExpressionSetupError.                *)

CouldntPrepare == "Errored out in Execute, couldn't PrepareToExecuteJITExpression"

\* Faulty variant: the result of the validation is ignored.
Prepare_LockAndCheckContext_IgnoresFailure ==
    /\ AtPc("LockAndCheckContext")
    /\ UNCHANGED image
    /\ UNCHANGED << object, running_user_expression, nAllocs, no_thread_address >>
    /\ \E stale \in {"yes", "no"} :
       LET f0 == [Top EXCEPT !.exe_ctx.stale = stale]
           ok == LockAndCheckContext(f0.exe_ctx)
           f == Logged(f0, Ev0("LockAndCheckContext", ok, ""))
       IN Continue(Goto(f, "AllocStruct"))

Prepare_LockAndCheckContext ==
    /\ AtPc("LockAndCheckContext")
    /\ UNCHANGED image
    /\ UNCHANGED << object, running_user_expression, nAllocs, no_thread_address >>
    /\ \E stale \in {"yes", "no"} :
       LET f0 == [Top EXCEPT !.exe_ctx.stale = stale]
           ok == LockAndCheckContext(f0.exe_ctx)
           f == Logged(f0, Ev0("LockAndCheckContext", ok, ""))
       IN IF ok
          THEN Continue(Goto(f, "AllocStruct"))
          ELSE Return(Printed(f, << "The context has changed before we could JIT the expression!",
                                    CouldntPrepare >>),
                      SetupError)

\* Faulty variant: the two policies are exchanged.
AllocationPolicy_Exchanged(can_interpret) ==
    IF can_interpret THEN "eAllocationPolicyMirror" ELSE "eAllocationPolicyHostOnly"

\* IRMemoryMap::AllocationPolicy policy = m_can_interpret ? HostOnly : Mirror
AllocationPolicy(can_interpret) ==
    IF can_interpret THEN "eAllocationPolicyHostOnly" ELSE "eAllocationPolicyMirror"

\* Faulty variant: the struct is allocated by every preparation.
NeedsStructAllocation_Always(materialized_address) == TRUE

\* Faulty variant: the struct is also allocated when no materialization is
\* pending.
NeedsStructAllocation_WhenNotMaterialized(materialized_address) ==
    materialized_address = LLDB_INVALID_ADDRESS \/ ~m_dematerializer_sp.live

\* if (m_materialized_address == LLDB_INVALID_ADDRESS)
NeedsStructAllocation(materialized_address) == materialized_address = LLDB_INVALID_ADDRESS

Prepare_AllocStruct ==
    /\ AtPc("AllocStruct")
    /\ UNCHANGED image
    /\ UNCHANGED << parsed, m_can_interpret, m_jit_start_addr, m_stack_frame_bottom,
                    m_stack_frame_top, m_dematerializer_sp, running_user_expression,
                    no_thread_address >>
    /\ IF ~HasSomethingToRun
       THEN /\ Continue(Goto(Top, "Dispatch"))
            /\ UNCHANGED << m_materialized_address, nAllocs >>
       ELSE IF NeedsStructAllocation(m_materialized_address)
       THEN \E r \in MallocResults :
              LET f == Logged(Top, Ev("MallocStruct", r.ok, AllocationPolicy(m_can_interpret),
                                      r.addr, 0, 0))
              IN /\ m_materialized_address' = r.addr
                 /\ nAllocs' = IF r.ok THEN nAllocs + 1 ELSE nAllocs
                 /\ IF r.ok
                    THEN Continue(Goto([f EXCEPT !.struct_address = r.addr], "AllocStack"))
                    ELSE Return(Printed(f, << "Couldn't allocate space for materialized struct",
                                              CouldntPrepare >>),
                                SetupError)
       ELSE /\ Continue(Goto([Top EXCEPT !.struct_address = m_materialized_address], "AllocStack"))
            /\ UNCHANGED << m_materialized_address, nAllocs >>

\* Faulty variant: the stack frame is allocated on either path.
NeedsStackAllocation_OnEitherPath(can_interpret, stack_frame_bottom) ==
    stack_frame_bottom = LLDB_INVALID_ADDRESS

\* if (m_can_interpret && m_stack_frame_bottom == LLDB_INVALID_ADDRESS)
NeedsStackAllocation(can_interpret, stack_frame_bottom) ==
    can_interpret /\ stack_frame_bottom = LLDB_INVALID_ADDRESS

Prepare_AllocStack ==
    /\ AtPc("AllocStack")
    /\ UNCHANGED image
    /\ UNCHANGED << parsed, m_can_interpret, m_jit_start_addr, m_materialized_address,
                    m_dematerializer_sp, running_user_expression, no_thread_address >>
    /\ IF NeedsStackAllocation(m_can_interpret, m_stack_frame_bottom)
       THEN \E r \in MallocResults :
              LET f == Logged(Top, Ev("MallocStack", r.ok, "eAllocationPolicyHostOnly",
                                           r.addr, 0, 0))
              IN /\ m_stack_frame_bottom' = r.addr
                 /\ m_stack_frame_top' = AddrAdd(r.addr, stack_frame_size)
                 /\ nAllocs' = IF r.ok THEN nAllocs + 1 ELSE nAllocs
                 /\ IF r.ok
                    THEN Continue(Goto(f, "Materialize"))
                    ELSE Return(Printed(f, << "Couldn't allocate space for the stack frame",
                                              CouldntPrepare >>),
                                SetupError)
       ELSE /\ Continue(Goto(Top, "Materialize"))
            /\ UNCHANGED << m_stack_frame_bottom, m_stack_frame_top, nAllocs >>

\* Faulty variant: a failed materialization does not stop the preparation.
Prepare_Materialize_IgnoresFailure ==
    /\ AtPc("Materialize")
    /\ UNCHANGED image
    /\ UNCHANGED << parsed, m_can_interpret, m_jit_start_addr, m_materialized_address,
                    m_stack_frame_bottom, m_stack_frame_top, running_user_expression,
                    nAllocs, no_thread_address >>
    /\ \E r \in MaterializeResults :
          LET f == Logged(Top, Ev("Materialize", r.ok, "", Top.struct_address, 0, 0))
          IN /\ m_dematerializer_sp' = r.handle
             /\ Continue(Goto(f, "Dispatch"))

Prepare_Materialize ==
    /\ AtPc("Materialize")
    /\ UNCHANGED image
    /\ UNCHANGED << parsed, m_can_interpret, m_jit_start_addr, m_materialized_address,
                    m_stack_frame_bottom, m_stack_frame_top, running_user_expression,
                    nAllocs, no_thread_address >>
    /\ \E r \in MaterializeResults :
          LET f == Logged(Top, Ev("Materialize", r.ok, "", Top.struct_address, 0, 0))
          IN /\ m_dematerializer_sp' = r.handle
             /\ IF r.ok
                THEN Continue(Goto(f, "Dispatch"))
                ELSE Return(Printed(f, << "Couldn't materialize", CouldntPrepare >>), SetupError)

\* Faulty variant: machine code is preferred whenever there is an entry address.
Execute_Dispatch_PrefersJit ==
    /\ AtPc("Dispatch")
    /\ UNCHANGED image
    /\ UNCHANGED << object, running_user_expression, nAllocs, no_thread_address >>
    /\ Continue(Goto(Top, IF m_jit_start_addr # LLDB_INVALID_ADDRESS
                          THEN "HasThreadScope" ELSE "GetModule"))

\* if (m_can_interpret) ... else ...
Execute_Dispatch ==
    /\ AtPc("Dispatch")
    /\ UNCHANGED image
    /\ UNCHANGED << object, running_user_expression, nAllocs, no_thread_address >>
    /\ Continue(Goto(Top, IF m_can_interpret THEN "GetModule" ELSE "HasThreadScope"))

-----------------------------------------------------------------------------
(* FinalizeJITExecution(error_stream, exe_ctx, result, bottom, top) on the *)
(* handle sp: the outcomes it may have, each with the handle it leaves in  *)
(* m_dematerializer_sp, the events, the messages and the caller's result.  *)

\* Faulty variant: an error of Dematerialize is reported but does not fail the finalization.
FinalizeJITExecution_IgnoresError(sp, function_stack_bottom, function_stack_top) ==
    IF ~sp.live
    THEN { [ ret |-> FALSE, sp |-> sp, log |-> <<>>,
             err |-> <<"Couldn't apply expression side effects : no dematerializer is present">>,
             result |-> "unmodified" ] }
    ELSE { [ ret |-> TRUE, sp |-> NoHandle,
             log |-> << Ev("Dematerialize", FALSE, "", 0, function_stack_bottom, function_stack_top) >>,
             err |-> <<"Couldn't apply expression side effects">>,
             result |-> "assigned" ],
           [ ret |-> TRUE, sp |-> NoHandle,
             log |-> << Ev("Dematerialize", TRUE, "", 0, function_stack_bottom, function_stack_top) >>,
             err |-> <<>>,
             result |-> "assigned" ] }

FinalizeJITExecution(sp, function_stack_bottom, function_stack_top) ==
    IF ~sp.live
    THEN { [ ret |-> FALSE, sp |-> sp, log |-> <<>>,
             err |-> <<"Couldn't apply expression side effects : no dematerializer is present">>,
             result |-> "unmodified" ] }
    ELSE { [ ret |-> FALSE, sp |-> Used(sp),
             log |-> << Ev("Dematerialize", FALSE, "", 0, function_stack_bottom, function_stack_top) >>,
             err |-> <<"Couldn't apply expression side effects">>,
             result |-> "unmodified" ],
           [ ret |-> TRUE, sp |-> NoHandle,
             log |-> << Ev("Dematerialize", TRUE, "", 0, function_stack_bottom, function_stack_top) >>,
             err |-> <<>>,
             result |-> "assigned" ] }

-----------------------------------------------------------------------------
(* Execute: the interpretation path.                                       *)

NothingToInterpret == "Supposed to interpret, but nothing is there"

\* Faulty variant: a missing module or function is not noticed and the
\* interpreter is invoked anyway.
Interpret_GetModule_IgnoresMissing ==
    /\ AtPc("GetModule")
    /\ UNCHANGED image
    /\ UNCHANGED << object, running_user_expression, nAllocs, no_thread_address >>
    /\ \E module \in BOOLEAN, function \in BOOLEAN :
          Continue(Goto(Logged(Top, Ev0("GetModule", module /\ function, "")),
                        "InterpretAddInitialArguments"))

\* m_execution_unit_sp->GetModule() and GetFunction(): either may be null.
Interpret_GetModule ==
    /\ AtPc("GetModule")
    /\ UNCHANGED image
    /\ UNCHANGED << object, running_user_expression, nAllocs, no_thread_address >>
    /\ \E module \in BOOLEAN, function \in BOOLEAN :
          LET f == Logged(Top, Ev0("GetModule", module /\ function, ""))
          IN IF module /\ function
             THEN Continue(Goto(f, "InterpretAddInitialArguments"))
             ELSE Return(Printed(f, <<NothingToInterpret>>), SetupError)

CouldntAddInitialArguments == "Errored out in Execute, couldn't AddInitialArguments"

Interpret_AddInitialArguments ==
    /\ AtPc("InterpretAddInitialArguments")
    /\ UNCHANGED image
    /\ UNCHANGED << object, running_user_expression, nAllocs, no_thread_address >>
    /\ \E ok \in BOOLEAN :
          LET f == Logged(Top, Ev0("AddInitialArguments", ok, ""))
          IN IF ok
             THEN Continue(Goto(f, "Interpret"))
             ELSE Return(Printed(f, <<CouldntAddInitialArguments>>), SetupError)

Interpret_Interpret ==
    /\ AtPc("Interpret")
    /\ UNCHANGED image
    /\ UNCHANGED << object, running_user_expression, nAllocs, no_thread_address >>
    /\ \E ok \in BOOLEAN :
          LET f == Logged([Top EXCEPT !.function_stack_bottom = m_stack_frame_bottom,
                                      !.function_stack_top = m_stack_frame_top],
                          Ev("Interpret", ok, "", Top.struct_address,
                             m_stack_frame_bottom, m_stack_frame_top))
          IN IF ok
             THEN Continue(Goto(f, "Finalize"))
             ELSE Return(Printed(f, <<"Supposed to interpret, but failed">>), Discarded)

-----------------------------------------------------------------------------
(* Execute: the in-process path.                                           *)

\* exe_ctx.HasThreadScope()
HasThreadScope(exe_ctx) == exe_ctx.has_thread = "yes"

NoThreadSelected == "UserExpression::Execute called with no thread selected."

Call_HasThreadScope ==
    /\ AtPc("HasThreadScope")
    /\ UNCHANGED image
    /\ UNCHANGED << object, running_user_expression, nAllocs >>
    /\ \E has_thread \in {"yes", "no"} :
       LET f == [Top EXCEPT !.exe_ctx.has_thread = has_thread]
       IN IF HasThreadScope(f.exe_ctx)
          THEN /\ Continue(Goto(f, "CallAddInitialArguments"))
               /\ UNCHANGED no_thread_address
          ELSE /\ Return(Printed(f, <<NoThreadSelected>>), SetupError)
               /\ no_thread_address' = m_materialized_address

Call_AddInitialArguments ==
    /\ AtPc("CallAddInitialArguments")
    /\ UNCHANGED image
    /\ UNCHANGED << object, running_user_expression, nAllocs, no_thread_address >>
    /\ \E ok \in BOOLEAN :
          LET f == Logged(Top, Ev0("AddInitialArguments", ok, ""))
          IN IF ok
             THEN Continue(Goto(f, "ValidatePlan"))
             ELSE Return(Printed(f, <<CouldntAddInitialArguments>>), SetupError)

\* new ThreadPlanCallUserExpression(...), ValidatePlan(&error_stream), and the
\* function-local stack region: the plan's stack pointer minus one page.
Call_ValidatePlan ==
    /\ AtPc("ValidatePlan")
    /\ UNCHANGED image
    /\ UNCHANGED << object, running_user_expression, nAllocs, no_thread_address >>
    /\ LET f == Logged(Top, Ev("ThreadPlanCallUserExpression", TRUE, "", Top.struct_address, 0, 0))
       IN \E valid \in BOOLEAN :
            IF valid
            THEN \E function_stack_pointer \in StackPointers :
                   Continue(Goto([ Logged(Logged(f, Ev0("ValidatePlan", TRUE, "")),
                                          Ev("GetFunctionStackPointer", TRUE, "",
                                             function_stack_pointer, 0, 0))
                                     EXCEPT !.function_stack_bottom =
                                                AddrSub(function_stack_pointer, PageSize),
                                            !.function_stack_top = function_stack_pointer ],
                                 "SetRunningUserExpression"))
            ELSE \E wrote \in BOOLEAN :
                   Return(Printed(Logged(f, Ev0("ValidatePlan", FALSE, "")),
                                  IF wrote THEN <<"ValidatePlan: the call plan is invalid">> ELSE <<>>),
                          SetupError)

\* exe_ctx.GetProcessPtr()->SetRunningUserExpression(true), then the call
\* enters Process::RunThreadPlan and blocks there.  The context has a thread
\* here (HasThreadScope), and a context with a thread has its process, so
\* GetProcessPtr() is not null.
Call_SetRunningUserExpression ==
    /\ AtPc("SetRunningUserExpression")
    /\ UNCHANGED image
    /\ UNCHANGED << object, nAllocs, no_thread_address >>
    /\ running_user_expression' = SetRunningUserExpression(running_user_expression, TRUE)
    /\ Continue(Goto(Logged(Top, Ev0("SetRunningUserExpression", TRUE, "true")), "RunThreadPlan"))

\* Faulty variant: the flag is not cleared after RunThreadPlan returns.
Call_RunThreadPlan_LeavesFlagSet ==
    /\ AtPc("RunThreadPlan")
    /\ UNCHANGED image
    /\ UNCHANGED << object, nAllocs, no_thread_address, running_user_expression >>
    /\ \E execution_result \in ExpressionResults :
          Continue(Goto(Logged([Top EXCEPT !.execution_result = execution_result],
                               Ev0("RunThreadPlan", execution_result = Completed,
                                   execution_result)),
                        "Classify"))

\* Process::RunThreadPlan returns its result to the innermost call, which then
\* calls SetRunningUserExpression(false).
Call_RunThreadPlan ==
    /\ AtPc("RunThreadPlan")
    /\ UNCHANGED image
    /\ UNCHANGED << object, nAllocs, no_thread_address >>
    /\ running_user_expression' = SetRunningUserExpression(running_user_expression, FALSE)
    /\ \E execution_result \in ExpressionResults :
          Continue(Goto(Logged(Logged([Top EXCEPT !.execution_result = execution_result],
                                      Ev0("RunThreadPlan", execution_result = Completed,
                                          execution_result)),
                               Ev0("SetRunningUserExpression", TRUE, "false")),
                        "Classify"))

RestoredStatement == "The process has been returned to the state before expression evaluation."

LeftStatement == "The process has been left at the point where it was interrupted"

\* Faulty variant: the two options are consulted for the wrong outcomes.
WasRestored_OptionsSwapped(execution_result, options) ==
    \/ execution_result = Interrupted /\ options.ignore
    \/ execution_result = HitBreakpoint /\ options.unwind

\* (execution_result == eExpressionInterrupted && options.DoesUnwindOnError()) ||
\* (execution_result == eExpressionHitBreakpoint && options.DoesIgnoreBreakpoints())
WasRestored(execution_result, options) ==
    \/ execution_result = Interrupted /\ options.unwind
    \/ execution_result = HitBreakpoint /\ options.ignore

\* Faulty variant: StoppedForDebug is not told apart from Completed.
Call_Classify_FinalizesAfterDebugStop ==
    /\ AtPc("Classify")
    /\ UNCHANGED image
    /\ UNCHANGED << object, running_user_expression, nAllocs, no_thread_address >>
    /\ LET r == Top.execution_result
       IN IF r \in {Interrupted, HitBreakpoint}
          THEN \E has_desc \in BOOLEAN, unwind \in BOOLEAN, ignore \in BOOLEAN :
                 LET f == Printed([Top EXCEPT !.options = [unwind |-> unwind, ignore |-> ignore,
                                                           read |-> TRUE]],
                                  << IF has_desc
                                     THEN "Execution was interrupted, reason: ..."
                                     ELSE "Execution was interrupted." >>)
                 IN IF WasRestored(r, f.options)
                    THEN Return(Printed(f, <<RestoredStatement>>), r)
                    ELSE Return(Printed(IF r = HitBreakpoint
                                        THEN Logged(f, Ev0("TransferExpressionOwnership", TRUE, ""))
                                        ELSE f,
                                        <<LeftStatement>>),
                                r)
          ELSE IF r \notin {Completed, StoppedForDebug}
          THEN Return(Printed(Top, <<"Couldn't execute function; result was ...">>), r)
          ELSE Continue(Goto(Top, "Finalize"))

\* Faulty variant: ownership of the expression is handed to the plan whenever
\* the thread state is left as it is.
TransfersOwnership_Always(execution_result) == TRUE

\* if (execution_result == lldb::eExpressionHitBreakpoint)
\*     user_expression_plan->TransferExpressionOwnership();
TransfersOwnership(execution_result) == execution_result = HitBreakpoint

\* Faulty variant: a call that timed out is finalized as if it had completed.
Call_Classify_FinalizesAfterTimeout ==
    /\ AtPc("Classify")
    /\ UNCHANGED image
    /\ UNCHANGED << object, running_user_expression, nAllocs, no_thread_address >>
    /\ LET r == Top.execution_result
       IN IF r \in {Interrupted, HitBreakpoint}
          THEN \E has_desc \in BOOLEAN, unwind \in BOOLEAN, ignore \in BOOLEAN :
                 LET f == Printed([Top EXCEPT !.options = [unwind |-> unwind, ignore |-> ignore,
                                                           read |-> TRUE]],
                                  << IF has_desc
                                          THEN "Execution was interrupted, reason: ..."
                                          ELSE "Execution was interrupted." >>)
                 IN IF WasRestored(r, f.options)
                    THEN Return(Printed(f, <<RestoredStatement>>), r)
                    ELSE Return(Printed(IF r = HitBreakpoint
                                        THEN Logged(f, Ev0("TransferExpressionOwnership", TRUE, ""))
                                        ELSE f,
                                        <<LeftStatement>>),
                                r)
          ELSE IF r = StoppedForDebug
          THEN Return(Printed(Top, <<"Execution was halted at the first instruction of the expression function because \"debug\" was requested.">>), r)
          ELSE IF r \notin {Completed, TimedOut}
          THEN Return(Printed(Top, <<"Couldn't execute function; result was ...">>), r)
          ELSE Continue(Goto(Top, "Finalize"))

Call_Classify ==
    /\ AtPc("Classify")
    /\ UNCHANGED image
    /\ UNCHANGED << object, running_user_expression, nAllocs, no_thread_address >>
    /\ LET r == Top.execution_result
       IN IF r \in {Interrupted, HitBreakpoint}
          THEN \E has_desc \in BOOLEAN, unwind \in BOOLEAN, ignore \in BOOLEAN :
                 LET f == Printed([Top EXCEPT !.options = [unwind |-> unwind, ignore |-> ignore,
                                                           read |-> TRUE]],
                                  << IF has_desc
                                          THEN "Execution was interrupted, reason: ..."
                                          ELSE "Execution was interrupted." >>)
                 IN IF WasRestored(r, f.options)
                    THEN Return(Printed(f, <<RestoredStatement>>), r)
                    ELSE Return(Printed(IF TransfersOwnership(r)
                                        THEN Logged(f, Ev0("TransferExpressionOwnership", TRUE, ""))
                                        ELSE f,
                                        <<LeftStatement>>),
                                r)
          ELSE IF r = StoppedForDebug
          THEN Return(Printed(Top, <<"Execution was halted at the first instruction of the expression function because \"debug\" was requested.">>), r)
          ELSE IF r # Completed
          THEN Return(Printed(Top, <<"Couldn't execute function; result was ...">>), r)
          ELSE Continue(Goto(Top, "Finalize"))

-----------------------------------------------------------------------------
(* Execute: finalization.                                                  *)

Execute_Finalize ==
    /\ AtPc("Finalize")
    /\ UNCHANGED image
    /\ UNCHANGED << parsed, m_can_interpret, m_jit_start_addr, m_materialized_address,
                    m_stack_frame_bottom, m_stack_frame_top, running_user_expression,
                    nAllocs, no_thread_address >>
    /\ \E fin \in FinalizeJITExecution(m_dematerializer_sp, Top.function_stack_bottom,
                                       Top.function_stack_top) :
          /\ m_dematerializer_sp' = fin.sp
          /\ Return([Top EXCEPT !.log = @ \o fin.log, !.err = @ \o fin.err,
                                !.result = fin.result],
                    IF fin.ret THEN Completed ELSE ResultUnavailable)

\* FinalizeJITExecution is a public method: a caller other than Execute (the
\* call plan, when it manages materialization) may invoke it on its own.
Finalize_Call ==
    /\ ~destroyed
    /\ stack = <<>>
    /\ UNCHANGED image
    /\ UNCHANGED << parsed, m_can_interpret, m_jit_start_addr, m_materialized_address,
                    m_stack_frame_bottom, m_stack_frame_top, running_user_expression,
                    nAllocs, no_thread_address, stack >>
    /\ \E fin \in FinalizeJITExecution(m_dematerializer_sp, LLDB_INVALID_ADDRESS,
                                       LLDB_INVALID_ADDRESS) :
          /\ m_dematerializer_sp' = fin.sp
          /\ last' = [ NoCall EXCEPT !.kind = "FinalizeJITExecution",
                                     !.outcome = IF fin.ret THEN "true" ELSE "false",
                                     !.log = fin.log, !.err = fin.err, !.result = fin.result,
                                     !.pre = Snap, !.post = Snap' ]

-----------------------------------------------------------------------------

Next ==
    \/ Parse
    \/ Execute_Call
    \/ Execute_Entry
    \/ Prepare_LockAndCheckContext
    \/ Prepare_AllocStruct
    \/ Prepare_AllocStack
    \/ Prepare_Materialize
    \/ Execute_Dispatch
    \/ Interpret_GetModule
    \/ Interpret_AddInitialArguments
    \/ Interpret_Interpret
    \/ Call_HasThreadScope
    \/ Call_AddInitialArguments
    \/ Call_ValidatePlan
    \/ Call_SetRunningUserExpression
    \/ Call_RunThreadPlan
    \/ Call_Classify
    \/ Execute_Finalize
    \/ Finalize_Call
    \/ Target_RemoveImage
    \/ Destructor

Spec == Init /\ [][Next]_vars

-----------------------------------------------------------------------------
(* Vocabulary of the properties.                                           *)

ExecOps == {"Interpret", "RunThreadPlan"}

PrepareOps == {"LockAndCheckContext", "MallocStruct", "MallocStack", "Materialize"}

\* Execute has just returned outcome to its caller.
Returned(outcome) == last.kind = "Execute" /\ last.outcome = outcome

IsPhase(op) == op \in {"Materialize", "Interpret", "RunThreadPlan", "Dematerialize"}

\* The materialize / execute / dematerialize calls of a log, in order.
Phases(log) == SelectSeq(Ops(log), IsPhase)

\* The logs of the Execute calls: those in progress and the one that has just
\* returned.
Logs ==
    { stack[i].log : i \in 1..Len(stack) }
    \cup (IF last.kind = "Execute" THEN { last.log } ELSE {})

\* An execution path was entered and reported success in this log.
ExecutionSucceeded(log) == \E i \in 1..Len(log) : log[i].op \in ExecOps /\ log[i].ok

-----------------------------------------------------------------------------
\* C1: every call to Execute that returns Completed made exactly three
\* materialize/execute/dematerialize calls, in this order: Materialize once,
\* then one of Interpret and RunThreadPlan once, then Dematerialize once.
C1_CompletedRunsEachPhaseOnce ==
    Returned(Completed) =>
        \E x \in ExecOps : Phases(last.log) = << "Materialize", x, "Dematerialize" >>

C1_Witness ==
    /\ Returned(Completed)
    /\ Phases(last.log) = << "Materialize", "RunThreadPlan", "Dematerialize" >>

\* C2: in every call, finished or in progress: an execution path is entered
\* only after a successful Materialize of that call; Dematerialize is invoked
\* at most once, and only after the execution path reported success; a call
\* that returns Interrupted, HitBreakpoint, StoppedForDebug, Discarded or
\* SetupError has not invoked it.
C2_LogOrdered(log) ==
    /\ \A i \in 1..Len(log) :
          log[i].op \in ExecOps =>
              \E j \in 1..(i - 1) : log[j].op = "Materialize" /\ log[j].ok
    /\ Count(log, "Dematerialize") <= 1
    /\ \A i \in 1..Len(log) :
          log[i].op = "Dematerialize" =>
              \E j \in 1..(i - 1) : log[j].op \in ExecOps /\ log[j].ok

C2_MaterializeBeforeRunDematerializeAfter ==
    /\ \A log \in Logs : C2_LogOrdered(log)
    /\ \A i \in 1..Len(stack) :
          stack[i].pc \in {"Interpret", "SetRunningUserExpression", "RunThreadPlan"} =>
              CountOk(stack[i].log, "Materialize") = 1
    /\ (last.kind = "Execute"
          /\ last.outcome \in {Interrupted, HitBreakpoint, StoppedForDebug, Discarded, SetupError})
       => Count(last.log, "Dematerialize") = 0

C2_Witness ==
    /\ Returned(ResultUnavailable)
    /\ Phases(last.log) = << "Materialize", "RunThreadPlan", "Dematerialize" >>

\* C3, as stated: every Execute call starts by validating the execution
\* context, and a call whose validation fails returns SetupError having done
\* nothing else and having left the object's fields as they were.
C3_ValidationFailed(call) ==
    /\ Len(call.log) >= 1
    /\ call.log[1].op = "LockAndCheckContext"
    /\ ~call.log[1].ok

C3_FailedValidationHasNoEffect ==
    (last.kind = "Execute" /\ C3_ValidationFailed(last)) =>
        /\ last.outcome = SetupError
        /\ Len(last.log) = 1
        /\ last.post = last.pre

C3_EveryCallValidatesFirst ==
    /\ last.kind = "Execute" =>
          (Len(last.log) >= 1 /\ last.log[1].op = "LockAndCheckContext")
    /\ C3_FailedValidationHasNoEffect

\* C3, amended: every Execute call on an expression that has something to run
\* (a JIT entry address or m_can_interpret) validates the execution context
\* before it does anything else, also when the expression is already
\* prepared; a call on an expression with nothing to run returns SetupError
\* without validating and without any effect; a call whose validation fails
\* returns SetupError having done nothing else and having left
\* m_materialized_address, m_stack_frame_bottom/top and m_dematerializer_sp
\* as they were.
C3_CallsWithSomethingToRunValidateFirst ==
    /\ \A log \in Logs : log # <<>> => log[1].op = "LockAndCheckContext"
    /\ last.kind = "Execute" =>
          IF HasSomethingToRun
          THEN Len(last.log) >= 1
          ELSE last.outcome = SetupError /\ last.log = <<>> /\ last.post = last.pre
    /\ C3_FailedValidationHasNoEffect

\* Validation fails on an expression that an earlier call has prepared.
C3_Witness ==
    /\ Returned(SetupError)
    /\ C3_ValidationFailed(last)
    /\ last.pre.materialized_address # LLDB_INVALID_ADDRESS
    /\ last.pre.dematerializer_sp.live

\* C4, as stated: a failing preparation sub-step makes Execute return
\* SetupError at once, and a call that returns SetupError has invoked neither
\* Interpret nor RunThreadPlan.
C4_FailedPreparationIsSetupError ==
    /\ \A i \in 1..Len(stack) : \A k \in 1..Len(stack[i].log) :
          stack[i].log[k].op \in PrepareOps => stack[i].log[k].ok
    /\ last.kind = "Execute" =>
          \A k \in 1..Len(last.log) :
              (last.log[k].op \in PrepareOps /\ ~last.log[k].ok) =>
                  (last.outcome = SetupError /\ k = Len(last.log))

C4_SetupErrorMeansNothingRan ==
    /\ C4_FailedPreparationIsSetupError
    /\ Returned(SetupError) =>
          (Count(last.log, "Interpret") = 0 /\ Count(last.log, "RunThreadPlan") = 0)

\* C4, amended: a failing preparation sub-step makes Execute return SetupError
\* at once; a call that returns SetupError has not invoked Interpret, and has
\* either not invoked RunThreadPlan or returns the SetupError that
\* RunThreadPlan itself reported, unchanged.
C4_SetupErrorRanNothingOrPropagates ==
    /\ C4_FailedPreparationIsSetupError
    /\ Returned(SetupError) =>
          /\ Count(last.log, "Interpret") = 0
          /\ \A k \in 1..Len(last.log) :
                last.log[k].op = "RunThreadPlan" => last.log[k].arg = SetupError

\* The stack allocation fails after the struct allocation succeeded.
C4_Witness ==
    /\ Returned(SetupError)
    /\ CountOk(last.log, "MallocStruct") = 1
    /\ Count(last.log, "MallocStack") = 1
    /\ CountOk(last.log, "MallocStack") = 0

\* C5: a call whose execution path succeeded and whose dematerialization
\* failed (Dematerialize reported an error, or there was no handle to call it
\* on) returns ResultUnavailable; a call returns Completed only if it invoked
\* Dematerialize and Dematerialize succeeded.
C5_FailedDematerializationIsResultUnavailable ==
    last.kind = "Execute" =>
        /\ (ExecutionSucceeded(last.log) /\ CountOk(last.log, "Dematerialize") = 0)
              => last.outcome = ResultUnavailable
        /\ last.outcome = Completed => CountOk(last.log, "Dematerialize") = 1

\* Dematerialize reports an error after RunThreadPlan returned Completed.
C5_Witness ==
    /\ Returned(ResultUnavailable)
    /\ ExecutionSucceeded(last.log)
    /\ Count(last.log, "Dematerialize") = 1
    /\ CountOk(last.log, "Dematerialize") = 0

\* C6: a dematerializer handle is single-use: once FinalizeJITExecution has
\* been attempted on a handle, whether it succeeded or failed, a second
\* FinalizeJITExecution fails without invoking Dematerialize on that handle
\* again: no handle has Dematerialize invoked on it more than once.
C6_HandleIsSingleUse == m_dematerializer_sp.uses <= 1

\* C7, as stated: the process's running-user-expression flag is true when a
\* call has just entered RunThreadPlan, it is true only while some call is
\* inside RunThreadPlan, and it is false whenever Execute returns, on every
\* return path.
InsideRunThreadPlan(i) == stack[i].pc = "RunThreadPlan"

C7_FlagSetAroundRunThreadPlan ==
    /\ running_user_expression => \E i \in 1..Len(stack) : InsideRunThreadPlan(i)
    /\ (AtPc("RunThreadPlan") /\ last = NoCall) => running_user_expression

C8_FlagHeldWhileOuterCallRuns ==
    \A i \in 1..Len(stack) : InsideRunThreadPlan(i) => running_user_expression

\* C9: a call that returns Interrupted or HitBreakpoint has written exactly
\* one restoration statement: "returned to the state before expression
\* evaluation" if and only if the outcome is Interrupted and unwind-on-error
\* is set, or HitBreakpoint and ignore-breakpoints is set, and otherwise "left
\* at the point where it was interrupted"; the outcome is RunThreadPlan's.
Occurrences(seq, x) == Cardinality({i \in 1..Len(seq) : seq[i] = x})

C9_RestorationStatementMatches ==
    (last.kind = "Execute" /\ last.outcome \in {Interrupted, HitBreakpoint}) =>
        LET restored == \/ last.outcome = Interrupted /\ last.options.unwind
                        \/ last.outcome = HitBreakpoint /\ last.options.ignore
        IN /\ last.options.read
           /\ Occurrences(last.err, RestoredStatement) = (IF restored THEN 1 ELSE 0)
           /\ Occurrences(last.err, LeftStatement) = (IF restored THEN 0 ELSE 1)
           /\ \E k \in 1..Len(last.log) :
                 last.log[k].op = "RunThreadPlan" /\ last.log[k].arg = last.outcome

\* A breakpoint hit with ignore-breakpoints set and unwind-on-error clear.
C9_Witness ==
    /\ Returned(HitBreakpoint)
    /\ last.options.ignore
    /\ ~last.options.unwind
    /\ Has(last.err, RestoredStatement)

\* C10: on the in-process path a call without a thread in its context returns
\* SetupError with the no-thread message, having built no call plan and not
\* resumed the target; it leaves m_materialized_address valid, and every later
\* call keeps and uses that address, and can complete.
C10_NoThreadIsSetupErrorAndReusable ==
    /\ last.kind = "Execute" =>
          (last.exe_ctx.has_thread = "no"
             <=> (last.outcome = SetupError /\ Has(last.err, NoThreadSelected)))
    /\ (last.kind = "Execute" /\ last.exe_ctx.has_thread = "no") =>
          /\ ~m_can_interpret
          /\ Count(last.log, "ThreadPlanCallUserExpression") = 0
          /\ Count(last.log, "SetRunningUserExpression") = 0
          /\ Count(last.log, "RunThreadPlan") = 0
          /\ last.post.materialized_address # LLDB_INVALID_ADDRESS
          /\ last.post.materialized_address = last.struct_address
          /\ no_thread_address = last.struct_address
    /\ no_thread_address # LLDB_INVALID_ADDRESS =>
          /\ m_materialized_address = no_thread_address
          /\ \A log \in Logs : \A k \in 1..Len(log) :
                log[k].op \in {"MallocStruct", "Materialize", "ThreadPlanCallUserExpression"}
                    => log[k].addr = no_thread_address

\* After a no-thread SetupError, a call with a thread completes on the same
\* struct address without allocating.
C10_Witness ==
    /\ no_thread_address # LLDB_INVALID_ADDRESS
    /\ Returned(Completed)
    /\ last.exe_ctx.has_thread = "yes"
    /\ last.struct_address = no_thread_address
    /\ Count(last.log, "MallocStruct") = 0

\* C11: on the interpretation path, a call that found the module or the entry
\* function missing returns SetupError and has not invoked Interpret; and a
\* call returns Discarded exactly when it invoked Interpret and Interpret
\* reported an error.
C11_MissingModuleIsSetupErrorNotDiscarded ==
    (last.kind = "Execute" /\ m_can_interpret) =>
        /\ (\E k \in 1..Len(last.log) : last.log[k].op = "GetModule" /\ ~last.log[k].ok) =>
              /\ last.outcome = SetupError
              /\ Count(last.log, "Interpret") = 0
              /\ Has(last.err, NothingToInterpret)
        /\ last.outcome = Discarded <=>
              (\E k \in 1..Len(last.log) : last.log[k].op = "Interpret" /\ ~last.log[k].ok)

\* A call found nothing to interpret and returned SetupError.
C11_Witness ==
    /\ Returned(SetupError)
    /\ m_can_interpret
    /\ Len(last.log) > 0
    /\ last.log[Len(last.log)] = Ev0("GetModule", FALSE, "")

\* The destructor has just run.
TornDown == last.kind = "~LLVMUserExpression"

\* C12: once the object is destroyed the target's image registry does not
\* hold its JIT module, whatever calls were made on the object before; the
\* destructor calls Remove at most once, and when the module is already gone
\* (the weak reference is expired) it does not call Remove at all.
C12_TeardownRemovesRegisteredImage ==
    /\ destroyed => "target" \notin jit_module_owners
    /\ TornDown =>
          /\ Count(last.log, "Remove") <= 1
          /\ Has(last.log, Ev0("lock", FALSE, "")) => Count(last.log, "Remove") = 0

\* The destructor removed the image of an expression whose only call was
\* abandoned with its dematerializer handle still live.
C12_Witness ==
    /\ TornDown
    /\ Has(last.log, Ev0("Remove", TRUE, ""))
    /\ m_dematerializer_sp.live
    /\ "target" \notin jit_module_owners

\* The destructor found the weak reference expired and removed nothing.
C12_WitnessExpired ==
    /\ TornDown
    /\ m_jit_module_wp
    /\ last.log = << Ev0("lock", FALSE, "") >>

\* The call that has just returned failed in its preparation, at op.
PreparationFailedAt(op) ==
    /\ Returned(SetupError)
    /\ Len(last.log) > 0
    /\ last.log[Len(last.log)].op = op
    /\ ~last.log[Len(last.log)].ok

\* C13: after a call whose preparation failed in the struct allocation, the
\* stack allocation or the materialization: m_materialized_address is valid
\* only if it was valid before or the call's struct allocation succeeded;
\* m_stack_frame_bottom and m_stack_frame_top are both invalid, or both valid
\* with top = bottom + 512 KiB; and after a failed materialization no
\* dematerializer handle is live.
C13_FailedPreparationLeavesNoPartialState ==
    (\E op \in {"MallocStruct", "MallocStack", "Materialize"} : PreparationFailedAt(op)) =>
        /\ last.post.materialized_address # LLDB_INVALID_ADDRESS =>
              \/ last.pre.materialized_address = last.post.materialized_address
              \/ \E k \in 1..Len(last.log) :
                    /\ last.log[k].op = "MallocStruct"
                    /\ last.log[k].ok
                    /\ last.log[k].addr = last.post.materialized_address
        /\ \/ /\ last.post.stack_frame_bottom = LLDB_INVALID_ADDRESS
              /\ last.post.stack_frame_top = LLDB_INVALID_ADDRESS
           \/ /\ last.post.stack_frame_bottom # LLDB_INVALID_ADDRESS
              /\ last.post.stack_frame_top # LLDB_INVALID_ADDRESS
              /\ last.post.stack_frame_top =
                     AddrAdd(last.post.stack_frame_bottom, stack_frame_size)
        /\ PreparationFailedAt("Materialize") => ~last.post.dematerializer_sp.live

\* The events that carry the struct address: a materialization, and the two
\* argument vectors (args.push_back(struct_address)).
StructUsers == {"Materialize", "Interpret", "ThreadPlanCallUserExpression"}

\* What C14 says of one call: its log, the object's fields when it was made
\* and the value of m_materialized_address now (or when it returned).
C14_CallKeepsStruct(log, pre, now) ==
    /\ CountOk(log, "MallocStruct") <= 1
    /\ pre.materialized_address # LLDB_INVALID_ADDRESS =>
          /\ Count(log, "MallocStruct") = 0
          /\ now = pre.materialized_address
    /\ \A k \in 1..Len(log) :
          /\ (log[k].op = "MallocStruct" /\ log[k].ok) => log[k].addr = now
          /\ log[k].op \in StructUsers =>
                (log[k].addr = now /\ now # LLDB_INVALID_ADDRESS)

\* C14: the struct is successfully allocated at most once: a call made when
\* m_materialized_address is valid performs no struct allocation and leaves
\* the address as it is, and every materialization, interpretation and call
\* plan of every call receives that one address.
C14_StructAllocatedOnceAndReused ==
    /\ \A i \in 1..Len(stack) :
          C14_CallKeepsStruct(stack[i].log, stack[i].pre, m_materialized_address)
    /\ last.kind = "Execute" =>
          /\ C14_CallKeepsStruct(last.log, last.pre, last.post.materialized_address)
          /\ m_materialized_address = last.post.materialized_address
    /\ ~m_can_interpret => nAllocs <= 1

\* A call made with the struct already allocated completes on that address.
C14_Witness ==
    /\ Returned(Completed)
    /\ last.pre.materialized_address # LLDB_INVALID_ADDRESS
    /\ Count(last.log, "MallocStruct") = 0
    /\ \E k \in 1..Len(last.log) :
          last.log[k].op = "Interpret" /\ last.log[k].addr = last.pre.materialized_address

\* What C15 says of the log of one call.
C15_LogFollowsPolicy(log) ==
    /\ Count(log, "MallocStruct") <= 1
    /\ \A k \in 1..Len(log) :
          log[k].op = "MallocStruct" =>
              /\ m_can_interpret => log[k].arg = "eAllocationPolicyHostOnly"
              /\ ~m_can_interpret => log[k].arg = "eAllocationPolicyMirror"
              /\ ~log[k].ok => k = Len(log)

\* C15: every struct allocation is requested host-only when m_can_interpret
\* is true and mirrored when it is false; a call requests it at most once, so
\* a failed request is not repeated under the other policy; and a call whose
\* struct allocation failed made no further call and returned SetupError.
C15_PolicyFollowsCanInterpret ==
    /\ \A log \in Logs : C15_LogFollowsPolicy(log)
    /\ \A i \in 1..Len(stack) :
          \A k \in 1..Len(stack[i].log) :
             stack[i].log[k].op = "MallocStruct" => stack[i].log[k].ok
    /\ (last.kind = "Execute" /\ Has(Ops(last.log), "MallocStruct")
          /\ CountOk(last.log, "MallocStruct") = 0) =>
              /\ last.outcome = SetupError
              /\ last.post.materialized_address = LLDB_INVALID_ADDRESS

\* A mirrored struct allocation failed and the call returned SetupError.
C15_Witness ==
    /\ ~m_can_interpret
    /\ PreparationFailedAt("MallocStruct")
    /\ last.log[Len(last.log)].arg = "eAllocationPolicyMirror"

\* The result RunThreadPlan returned in this log, "none" if it did not return.
RunResult(log) ==
    IF \E k \in 1..Len(log) : log[k].op = "RunThreadPlan"
    THEN log[CHOOSE k \in 1..Len(log) : log[k].op = "RunThreadPlan"].arg
    ELSE "none"

\* C16: a call in which RunThreadPlan returned a result other than Completed
\* (StoppedForDebug included) returns exactly that result, has not run
\* FinalizeJITExecution (no Dematerialize call and none of its messages), and
\* leaves the caller's result variable unmodified.
C16_NonCompletedResultIsPropagated ==
    (last.kind = "Execute" /\ RunResult(last.log) \notin {"none", Completed}) =>
        /\ last.outcome = RunResult(last.log)
        /\ Count(last.log, "Dematerialize") = 0
        /\ last.result = "unmodified"
        /\ \A fin \in FinalizeJITExecution(NoHandle, 0, 0)
                        \cup FinalizeJITExecution(NewHandle, 0, 0) :
              \A k \in 1..Len(fin.err) : ~Has(last.err, fin.err[k])

\* RunThreadPlan stopped for debugging and Execute returned just that.
C16_Witness ==
    /\ Returned(StoppedForDebug)
    /\ RunResult(last.log) = StoppedForDebug
    /\ last.result = "unmodified"

\* C17: every call that returns an outcome other than Completed has written
\* at least one message to the error stream.
C17_EveryFailureWritesDiagnostic ==
    (last.kind = "Execute" /\ last.outcome # Completed) => Len(last.err) > 0

\* The options of the call that has just returned say: ignore breakpoints.
\* They are read only after Interrupted or HitBreakpoint.
C18_ShouldTransfer(call) ==
    /\ RunResult(call.log) = HitBreakpoint
    /\ call.options.read
    /\ ~call.options.ignore

\* C18: a call invokes TransferExpressionOwnership exactly when RunThreadPlan
\* returned HitBreakpoint and the ignore-breakpoints option is not set, and
\* then once; a call in which RunThreadPlan returned anything else, or did
\* not run, never invokes it.
C18_OwnershipTransferredOnlyOnBreakpoint ==
    /\ last.kind = "Execute" =>
          /\ Count(last.log, "TransferExpressionOwnership") <= 1
          /\ Count(last.log, "TransferExpressionOwnership") = 1 <=> C18_ShouldTransfer(last)
    /\ \A i \in 1..Len(stack) : Count(stack[i].log, "TransferExpressionOwnership") = 0

\* A breakpoint was hit with ignore-breakpoints off, and ownership passed to
\* the plan although unwind-on-error was set.
C18_Witness ==
    /\ Returned(HitBreakpoint)
    /\ last.options.unwind
    /\ ~last.options.ignore
    /\ last.log[Len(last.log)].op = "TransferExpressionOwnership"

\* The calls of the in-process path that touch the target.
ResumeOps == {"ThreadPlanCallUserExpression", "ValidatePlan", "SetRunningUserExpression",
              "RunThreadPlan"}

\* C19: every call, finished or in progress, has invoked at most one of
\* Interpret and RunThreadPlan, at most once; when m_can_interpret is true,
\* with or without a JIT entry address, no call builds a call plan, runs
\* RunThreadPlan or touches the running-user-expression flag, which stays
\* false; when m_can_interpret is false no call invokes Interpret.
C19_DispatchIsExclusive ==
    /\ \A log \in Logs :
          /\ Count(log, "Interpret") + Count(log, "RunThreadPlan") <= 1
          /\ m_can_interpret => \A k \in 1..Len(log) : log[k].op \notin ResumeOps
          /\ ~m_can_interpret => Count(log, "Interpret") = 0
    /\ m_can_interpret => ~running_user_expression

\* An expression that can be interpreted and also has a JIT entry address
\* completed by interpretation.
C19_Witness ==
    /\ m_can_interpret
    /\ m_jit_start_addr # LLDB_INVALID_ADDRESS
    /\ Returned(Completed)
    /\ Count(last.log, "Interpret") = 1

\* What C20 says of one call: its log, the object's fields when it was made
\* and the value of m_stack_frame_bottom now (or when it returned).
C20_CallKeepsStack(log, pre, now) ==
    /\ CountOk(log, "MallocStack") <= 1
    /\ pre.stack_frame_bottom # LLDB_INVALID_ADDRESS =>
          /\ Count(log, "MallocStack") = 0
          /\ now = pre.stack_frame_bottom
    /\ \A k \in 1..Len(log) :
          /\ log[k].op = "MallocStack" =>
                /\ m_can_interpret
                /\ log[k].arg = "eAllocationPolicyHostOnly"
                /\ log[k].ok => log[k].addr = now
          /\ log[k].op = "Interpret" =>
                /\ log[k].bottom = now
                /\ log[k].bottom # LLDB_INVALID_ADDRESS
                /\ log[k].top = AddrAdd(log[k].bottom, stack_frame_size)
          /\ log[k].op = "Dematerialize" =>
                \E j \in 1..(k - 1) :
                   \/ /\ log[j].op = "Interpret"
                      /\ log[k].bottom = log[j].bottom
                      /\ log[k].top = log[j].top
                   \/ /\ log[j].op = "GetFunctionStackPointer"
                      /\ log[k].top = log[j].addr
                      /\ log[k].bottom = AddrSub(log[j].addr, PageSize)

\* C20: the stack frame is allocated only when m_can_interpret is true, always
\* host-only, and successfully at most once: a call made when
\* m_stack_frame_bottom is valid allocates nothing and leaves it as it is.
\* Every interpretation and the dematerialization after it receive these
\* bounds, with top = bottom + 512 KiB; the dematerialization after an
\* in-process call receives the call plan's function stack pointer as top and
\* that pointer minus one host page as bottom.
C20_StackOnlyForInterpretation ==
    /\ \A i \in 1..Len(stack) :
          C20_CallKeepsStack(stack[i].log, stack[i].pre, m_stack_frame_bottom)
    /\ last.kind = "Execute" =>
          /\ C20_CallKeepsStack(last.log, last.pre, last.post.stack_frame_bottom)
          /\ m_stack_frame_bottom = last.post.stack_frame_bottom
    /\ ~m_can_interpret =>
          /\ m_stack_frame_bottom = LLDB_INVALID_ADDRESS
          /\ m_stack_frame_top = LLDB_INVALID_ADDRESS

\* A second interpretation completed on the stack frame the first call
\* allocated.
C20_Witness ==
    /\ Returned(Completed)
    /\ last.pre.stack_frame_bottom # LLDB_INVALID_ADDRESS
    /\ \E k \in 1..Len(last.log) :
          /\ last.log[k].op = "Dematerialize"
          /\ last.log[k].bottom = last.pre.stack_frame_bottom
          /\ last.log[k].top = AddrAdd(last.pre.stack_frame_bottom, stack_frame_size)

\* An in-process call completed with a function stack pointer below one page:
\* the bottom handed to the dematerialization wrapped around.
C20_WitnessInProcess ==
    /\ Returned(Completed)
    /\ \E k \in 1..Len(last.log) :
          /\ last.log[k].op = "Dematerialize"
          /\ last.log[k].top < PageSize
          /\ last.log[k].bottom = AddrSub(last.log[k].top, PageSize)

====
